---------------------------- MODULE Spec2Model ----------------------------
(***************************************************************************)
(* The tokenizer / abbreviation resolver / sentence grouper core of        *)
(* swe-pipeline.py: PeekableIterator, join_abbrevs and group_sentences,    *)
(* run as the lazy pipeline of the main program                            *)
(*     marked    = join_abbrevs(ABBREVS, tokens)                           *)
(*     sentences = group_sentences(marked)                                 *)
(*                                                                         *)
(* A token is a non-empty sequence of characters (one-character strings);  *)
(* Python's None (the paragraph / sentence marker) is the empty sequence,  *)
(* which no token is, so that token[-1] and next_token[0] are undefined on *)
(* it exactly as they raise on None.                                       *)
(***************************************************************************)
EXTENDS Naturals, Sequences, FiniteSets, TLC

\* ------------------------------------------------------------------ bounds
\* Longest token stream handed to join_abbrevs / group_sentences.
MaxLen == 5

\* ------------------------------------------------------------ the alphabet
None == << >>

Dr      == <<"D", "r">>
Hej     == <<"H", "e", "j">>
Dot     == <<".">>
se      == <<"s", "e">>
DrDot   == <<"D", "r", ".">>
DrSe    == <<"D", "r", "_", "s", "e">>
DrSeDot == <<"D", "r", "_", "s", "e", ".">>
DotSe   == <<".", "s", "e">>
SDot    == <<"s", ".">>
SeDotHej == <<"s", "e", ".", "H", "e", "j">>

\* The items a stream is drawn from: tokens and the marker.
Items == {Dr, Hej, Dot, se, None}

\* str.isupper() of one character.
isupper(c) == c \in {"D", "H"}

\* The characters of the literal ".:!?" of the boundary test.
SentenceEnd == {".", ":", "!", "?"}

\* ---------------------------------------------------------------- tables
\* An abbreviation table is a dict: a set of key/value pairs with distinct
\* keys, each key a tuple of token strings.
Entry(k, v) == [key |-> k, val |-> v]

TableEmpty   == {}
TableDr      == {Entry(<<Dr, Dot>>, DrDot)}
TableOverlap == {Entry(<<Dr, se>>, DrSe), Entry(<<Dr, se, Dot>>, DrSeDot)}
TableDot     == {Entry(<<Dot, se>>, DotSe)}
TableOne     == {Entry(<<se>>, SDot)}
TableSingle  == {Entry(<<se>>, SDot), Entry(<<se, Dot, Hej>>, SeDotHej)}

Tables == {TableEmpty, TableDr, TableOverlap, TableDot, TableOne, TableSingle}

\* All streams of at most MaxLen items.
Streams == UNION {[1..n -> Items] : n \in 0..MaxLen}

\* No call of the iterator by a direct caller yet.
NoCall == [call |-> "none", n |-> 0, at |-> 0, stop |-> FALSE,
           value |-> << >>]

VARIABLES
    abbrevs,      \* join_abbrevs' argument abbrevs (never assigned)
    tokens,       \* join_abbrevs' argument tokens, as handed in
    iterable,     \* PeekableIterator._iterable: what it has yet to deliver
    cache,        \* PeekableIterator._cache
    was_abbrev,   \* join_abbrevs' local was_abbrev
    token,        \* join_abbrevs' loop variable token
    jpc,          \* where join_abbrevs is: "loop", "seg", "brk", "done", "error"
    marked,       \* the items join_abbrevs has yielded, in order
    kinds,        \* history: which yield produced marked[k]
    gpos,         \* how many items of marked group_sentences has taken
    sentence,     \* group_sentences' local sentence
    gpc,          \* where group_sentences is: "run", "done", "error"
    sentences,    \* the sentences group_sentences has yielded, in order
    data,         \* tokenize's argument data
    tpos,         \* where finditer goes on searching data
    other,        \* the locals of a second pipeline over another document
    returned,     \* the values a direct caller has got from __next__()
    result        \* history: the caller's last call of the iterator

vars == <<abbrevs, tokens, iterable, cache, was_abbrev, token, jpc, marked,
          kinds, gpos, sentence, gpc, sentences, data, tpos, other, returned,
          result>>

\* ------------------------------------------------------ join_abbrevs: setup
Keys(tab) == {e.key : e \in tab}

\* abbrevs[k]
Lookup(tab, k) == (CHOOSE e \in tab : e.key = k).val

\* abbrev_prefixes with the bug of abbrev[:i] for abbrev[:i+1]: the prefixes
\* of lengths 0 to len(abbrev) - 1.
abbrev_prefixes_short(tab) ==
    {SubSeq(k, 1, i) : <<k, i>> \in
        UNION {{<<k, i>> : i \in 0..(Len(k) - 1)} : k \in Keys(tab)}}

\* abbrev_prefixes: abbrev[:i+1] for every key and every i in range(len(abbrev)).
abbrev_prefixes(tab) ==
    {SubSeq(k, 1, i + 1) : <<k, i>> \in
        UNION {{<<k, i>> : i \in 0..(Len(k) - 1)} : k \in Keys(tab)}}

SeqMax(S) == CHOOSE m \in S : \A x \in S : x <= m

\* max_abbrev_length: the longest key's length, 0 for the empty table.
max_abbrev_length(tab) ==
    IF tab # {} THEN SeqMax({Len(k) : k \in Keys(tab)}) ELSE 0

\* --------------------------------------------------------- PeekableIterator
Min(a, b) == IF a <= b THEN a ELSE b

\* _fill_cache(n) with the bug of "<=" for "<" in its loop test: it wants one
\* item more than asked for.
fill_cache_over(it, c, n) ==
    LET k == IF Len(c) <= n THEN Min(n + 1 - Len(c), Len(it)) ELSE 0
    IN  [iterable |-> SubSeq(it, k + 1, Len(it)),
         cache    |-> c \o SubSeq(it, 1, k),
         stop     |-> Len(c) + Len(it) < n + 1]

\* _fill_cache(n): append from the iterable until the cache holds n items;
\* next() raising StopIteration leaves what was appended in the cache
\* (stop = TRUE).
fill_cache(it, c, n) ==
    LET k == IF Len(c) < n THEN Min(n - Len(c), Len(it)) ELSE 0
    IN  [iterable |-> SubSeq(it, k + 1, Len(it)),
         cache    |-> c \o SubSeq(it, 1, k),
         stop     |-> Len(c) + Len(it) < n]

\* __next__() with the bug of reading _cache[0] where it pops it.
it_next_keeps(it, c) ==
    LET f == fill_cache(it, c, 1)
    IN  IF f.stop
        THEN [stop |-> TRUE, value |-> None, iterable |-> f.iterable,
              cache |-> f.cache]
        ELSE [stop |-> FALSE, value |-> Head(f.cache),
              iterable |-> f.iterable, cache |-> f.cache]

\* __next__() with n = None: fill to 1 and pop the first cached item.
it_next(it, c) ==
    LET f == fill_cache(it, c, 1)
    IN  IF f.stop
        THEN [stop |-> TRUE, value |-> None, iterable |-> f.iterable,
              cache |-> f.cache]
        ELSE [stop |-> FALSE, value |-> Head(f.cache),
              iterable |-> f.iterable, cache |-> Tail(f.cache)]

\* peek(n) with the bug of popping what it returns, as __next__(n) does.
peek_pops(it, c, n) ==
    LET f == fill_cache(it, c, n)
    IN  IF f.stop
        THEN [stop |-> TRUE, value |-> << >>, iterable |-> f.iterable,
              cache |-> f.cache]
        ELSE [stop |-> FALSE, value |-> SubSeq(f.cache, 1, n),
              iterable |-> f.iterable,
              cache |-> SubSeq(f.cache, n + 1, Len(f.cache))]

\* peek(n): fill to n and return the first n cached items, consuming none.
peek(it, c, n) ==
    LET f == fill_cache(it, c, n)
    IN  IF f.stop
        THEN [stop |-> TRUE, value |-> << >>, iterable |-> f.iterable,
              cache |-> f.cache]
        ELSE [stop |-> FALSE, value |-> SubSeq(f.cache, 1, n),
              iterable |-> f.iterable, cache |-> f.cache]


\* ------------------------------------------------------ join_abbrevs: scan
\* The override of the scan: token == "." and next_token is None.
sentence_final(tok, next_token) == tok = Dot /\ next_token = None

\* The scan loop from iteration i on: for i in range(max_abbrev_length), with
\* its peeks, its three breaks and the StopIteration handler.  The result is
\* longest_candidate (<< >> for None: both are false in "if longest_candidate")
\* and the iterator's state after the peeks.
RECURSIVE scan(_, _, _, _, _)
scan(tab, tok, it, c, i) ==
    IF i >= max_abbrev_length(tab)
    THEN [longest_candidate |-> << >>, iterable |-> it, cache |-> c]
    ELSE LET p == peek(it, c, i + 1)
             candidate == <<tok>> \o p.value
         IN  IF p.stop
             THEN \* except StopIteration: break
                  [longest_candidate |-> << >>, iterable |-> p.iterable,
                   cache |-> p.cache]
             ELSE IF candidate \notin abbrev_prefixes(tab)
             THEN [longest_candidate |-> << >>, iterable |-> p.iterable,
                   cache |-> p.cache]
             ELSE IF candidate \in Keys(tab)
             THEN IF sentence_final(tok, p.value[Len(p.value)])
                  THEN [longest_candidate |-> << >>, iterable |-> p.iterable,
                        cache |-> p.cache]
                  ELSE [longest_candidate |-> candidate,
                        iterable |-> p.iterable, cache |-> p.cache]
             ELSE scan(tab, tok, p.iterable, p.cache, i + 1)

\* The skip left out: the tokens of the key stay in the iterator.
skip_nothing(it, c, n) == [iterable |-> it, cache |-> c]

\* The skip with the bug of "for _ in longest_candidate": one next() more.
RECURSIVE skip_one_more(_, _, _)
skip_one_more(it, c, n) ==
    LET x == it_next(it, c)
    IN  IF n = 0 THEN [iterable |-> x.iterable, cache |-> x.cache]
        ELSE skip_one_more(x.iterable, x.cache, n - 1)

\* for _ in longest_candidate[:-1]: next(tokens)
RECURSIVE skip(_, _, _)
skip(it, c, n) ==
    IF n = 0 THEN [iterable |-> it, cache |-> c]
    ELSE LET x == it_next(it, c) IN skip(x.iterable, x.cache, n - 1)

\* The boundary test of the segmentation branch.
is_boundary(tok, next_token, wa) ==
    /\ tok # None
    /\ next_token # None
    /\ ~wa
    /\ tok[Len(tok)] \in SentenceEnd
    /\ isupper(next_token[1])

\* ------------------------------------------------------------- the pipeline
\* The pipeline is lazy: join_abbrevs runs only while group_sentences is
\* waiting for its next item.
pulled == gpc = "run" /\ gpos = Len(marked)

Init ==
    /\ abbrevs \in Tables
    /\ tokens \in Streams
    /\ iterable = tokens
    /\ cache = << >>
    /\ was_abbrev = FALSE
    /\ token = None
    /\ jpc = "loop"
    /\ marked = << >>
    /\ kinds = << >>
    /\ gpos = 0
    /\ sentence = << >>
    /\ gpc = "run"
    /\ sentences = << >>
    /\ data = << >>
    /\ tpos = 1
    /\ other = << >>
    /\ returned = << >>
    /\ result = NoCall

yield(item, kind) ==
    /\ marked' = Append(marked, item)
    /\ kinds' = Append(kinds, kind)

\* What neither join_abbrevs nor group_sentences touches.
RestUnchanged == UNCHANGED <<data, tpos, other, returned, result>>

GroupUnchanged ==
    UNCHANGED <<gpos, sentence, gpc, sentences>> /\ RestUnchanged

\* for token in tokens: the iterator is exhausted, the generator returns.
JA_ForEnd ==
    /\ jpc = "loop" /\ pulled
    /\ it_next(iterable, cache).stop
    /\ jpc' = "done"
    /\ UNCHANGED <<abbrevs, tokens, iterable, cache, was_abbrev, token,
                   marked, kinds>>
    /\ GroupUnchanged

\* JA_Fold with the bug of treating the folded token like any other: token
\* becomes the key's value and the iteration goes on to the segmentation,
\* was_abbrev not set.
JA_Fold_Segments ==
    /\ jpc = "loop" /\ pulled
    /\ LET n == it_next(iterable, cache) IN
       /\ ~n.stop
       /\ <<n.value>> \in abbrev_prefixes(abbrevs)
       /\ LET s == scan(abbrevs, n.value, n.iterable, n.cache, 0)
              k == skip(s.iterable, s.cache, Len(s.longest_candidate) - 1)
          IN  /\ s.longest_candidate # << >>
              /\ token' = Lookup(abbrevs, s.longest_candidate)
              /\ iterable' = k.iterable
              /\ cache' = k.cache
              /\ yield(Lookup(abbrevs, s.longest_candidate), "fold")
              /\ jpc' = "seg"
    /\ UNCHANGED <<abbrevs, tokens, was_abbrev>>
    /\ GroupUnchanged

\* One iteration on a token that starts a key, the scan finding a key: the
\* used tokens are skipped, the key's value is yielded, was_abbrev is set.
JA_Fold ==
    /\ jpc = "loop" /\ pulled
    /\ LET n == it_next(iterable, cache) IN
       /\ ~n.stop
       /\ <<n.value>> \in abbrev_prefixes(abbrevs)
       /\ LET s == scan(abbrevs, n.value, n.iterable, n.cache, 0)
              k == skip(s.iterable, s.cache, Len(s.longest_candidate) - 1)
          IN  /\ s.longest_candidate # << >>
              /\ token' = n.value
              /\ iterable' = k.iterable
              /\ cache' = k.cache
              /\ yield(Lookup(abbrevs, s.longest_candidate), "fold")
              /\ was_abbrev' = TRUE
              /\ jpc' = "loop"
    /\ UNCHANGED <<abbrevs, tokens>>
    /\ GroupUnchanged

\* JA_NoFold with the bug of looking the token itself up in the table when
\* the scan finds nothing: a key of length 1 is applied.
JA_NoFold_AppliesSingle ==
    /\ jpc = "loop" /\ pulled
    /\ LET n == it_next(iterable, cache) IN
       /\ ~n.stop
       /\ <<n.value>> \in abbrev_prefixes(abbrevs)
       /\ LET s == scan(abbrevs, n.value, n.iterable, n.cache, 0)
          IN  /\ s.longest_candidate = << >>
              /\ token' = n.value
              /\ iterable' = s.iterable
              /\ cache' = s.cache
              /\ IF <<n.value>> \in Keys(abbrevs)
                 THEN yield(Lookup(abbrevs, <<n.value>>), "fold")
                 ELSE yield(n.value, "tok")
              /\ jpc' = "loop"
    /\ UNCHANGED <<abbrevs, tokens, was_abbrev>>
    /\ GroupUnchanged

\* One iteration on a token that starts a key, the scan finding none: the
\* token is yielded and the iteration is over.
JA_NoFold ==
    /\ jpc = "loop" /\ pulled
    /\ LET n == it_next(iterable, cache) IN
       /\ ~n.stop
       /\ <<n.value>> \in abbrev_prefixes(abbrevs)
       /\ LET s == scan(abbrevs, n.value, n.iterable, n.cache, 0)
          IN  /\ s.longest_candidate = << >>
              /\ token' = n.value
              /\ iterable' = s.iterable
              /\ cache' = s.cache
              /\ yield(n.value, "tok")
              /\ jpc' = "loop"
    /\ UNCHANGED <<abbrevs, tokens, was_abbrev>>
    /\ GroupUnchanged

\* One iteration on a token that starts no key, up to its yield.
JA_Plain ==
    /\ jpc = "loop" /\ pulled
    /\ LET n == it_next(iterable, cache) IN
       /\ ~n.stop
       /\ <<n.value>> \notin abbrev_prefixes(abbrevs)
       /\ token' = n.value
       /\ iterable' = n.iterable
       /\ cache' = n.cache
       /\ yield(n.value, "tok")
       /\ jpc' = "seg"
    /\ UNCHANGED <<abbrevs, tokens, was_abbrev>>
    /\ GroupUnchanged

\* The segmentation after that yield: the next item is peeked, the test
\* holds and the marker is yielded.
JA_SegBreak ==
    /\ jpc = "seg" /\ pulled
    /\ LET p == peek(iterable, cache, 1) IN
       /\ ~p.stop
       /\ is_boundary(token, p.value[1], was_abbrev)
       /\ iterable' = p.iterable
       /\ cache' = p.cache
       /\ yield(None, "brk")
       /\ jpc' = "brk"
    /\ UNCHANGED <<abbrevs, tokens, was_abbrev, token>>
    /\ GroupUnchanged

\* The segmentation after that yield: the test fails, was_abbrev is reset.
JA_SegNoBreak ==
    /\ jpc = "seg" /\ pulled
    /\ LET p == peek(iterable, cache, 1) IN
       /\ ~p.stop
       /\ ~is_boundary(token, p.value[1], was_abbrev)
       /\ iterable' = p.iterable
       /\ cache' = p.cache
       /\ was_abbrev' = FALSE
       /\ jpc' = "loop"
    /\ UNCHANGED <<abbrevs, tokens, token, marked, kinds>>
    /\ GroupUnchanged

\* After the marker's yield: was_abbrev is reset.
JA_AfterBreak ==
    /\ jpc = "brk" /\ pulled
    /\ was_abbrev' = FALSE
    /\ jpc' = "loop"
    /\ UNCHANGED <<abbrevs, tokens, iterable, cache, token, marked, kinds>>
    /\ GroupUnchanged

\* The segmentation's peek after the last token: next() raises StopIteration
\* inside the generator, outside any try.  An interpreter before PEP 479
\* (Python < 3.7) ends the generator there ...
JA_SegStopReturn ==
    /\ jpc = "seg" /\ pulled
    /\ peek(iterable, cache, 1).stop
    /\ jpc' = "done"
    /\ UNCHANGED <<abbrevs, tokens, iterable, cache, was_abbrev, token,
                   marked, kinds>>
    /\ GroupUnchanged

\* ... and one with PEP 479 (Python >= 3.7) turns it into a RuntimeError
\* raised out of the generator.
JA_SegStopRaise ==
    /\ jpc = "seg" /\ pulled
    /\ peek(iterable, cache, 1).stop
    /\ jpc' = "error"
    /\ UNCHANGED <<abbrevs, tokens, iterable, cache, was_abbrev, token,
                   marked, kinds>>
    /\ GroupUnchanged

JoinUnchanged ==
    /\ UNCHANGED <<abbrevs, tokens, iterable, cache, was_abbrev, token, jpc,
                   marked, kinds>>
    /\ RestUnchanged

\* -------------------------------------------------------- group_sentences
\* for token in tokens, the item a token: sentence.append(token)
GS_Token ==
    /\ gpc = "run" /\ gpos < Len(marked)
    /\ marked[gpos + 1] # None
    /\ sentence' = Append(sentence, marked[gpos + 1])
    /\ gpos' = gpos + 1
    /\ UNCHANGED <<gpc, sentences>>
    /\ JoinUnchanged

\* GS_Marker with the bug of yielding the accumulator without "if sentence".
GS_Marker_Unchecked ==
    /\ gpc = "run" /\ gpos < Len(marked)
    /\ marked[gpos + 1] = None
    /\ sentences' = Append(sentences, sentence)
    /\ sentence' = << >>
    /\ gpos' = gpos + 1
    /\ UNCHANGED gpc
    /\ JoinUnchanged

\* for token in tokens, the item None: if sentence: yield sentence; sentence = []
GS_Marker ==
    /\ gpc = "run" /\ gpos < Len(marked)
    /\ marked[gpos + 1] = None
    /\ sentences' = IF sentence # << >> THEN Append(sentences, sentence)
                    ELSE sentences
    /\ sentence' = << >>
    /\ gpos' = gpos + 1
    /\ UNCHANGED gpc
    /\ JoinUnchanged

\* GS_End with the bug of leaving out the yield after the loop.
GS_End_NoFlush ==
    /\ gpc = "run" /\ gpos = Len(marked) /\ jpc = "done"
    /\ gpc' = "done"
    /\ UNCHANGED <<gpos, sentence, sentences>>
    /\ JoinUnchanged

\* The upstream generator has returned: if sentence: yield sentence
GS_End ==
    /\ gpc = "run" /\ gpos = Len(marked) /\ jpc = "done"
    /\ sentences' = IF sentence # << >> THEN Append(sentences, sentence)
                    ELSE sentences
    /\ gpc' = "done"
    /\ UNCHANGED <<gpos, sentence>>
    /\ JoinUnchanged

\* The upstream generator has raised: the exception leaves the for loop and
\* group_sentences; the last yield is not reached.
GS_Raise ==
    /\ gpc = "run" /\ gpos = Len(marked) /\ jpc = "error"
    /\ gpc' = "error"
    /\ UNCHANGED <<gpos, sentence, sentences>>
    /\ JoinUnchanged

Next ==
    \/ JA_ForEnd
    \/ JA_Fold
    \/ JA_NoFold
    \/ JA_Plain
    \/ JA_SegBreak
    \/ JA_SegNoBreak
    \/ JA_AfterBreak
    \/ JA_SegStopReturn
    \/ JA_SegStopRaise
    \/ GS_Token
    \/ GS_Marker
    \/ GS_End
    \/ GS_Raise

Spec == Init /\ [][Next]_vars

\* group_sentences alone, over any stream of at most MaxLen items delivered
\* by an upstream that then returns.
InitGS ==
    /\ abbrevs = TableEmpty
    /\ marked \in Streams
    /\ tokens = marked
    /\ iterable = << >>
    /\ cache = << >>
    /\ was_abbrev = FALSE
    /\ token = None
    /\ jpc = "done"
    /\ kinds = [k \in 1..Len(marked) |-> "tok"]
    /\ gpos = 0
    /\ sentence = << >>
    /\ gpc = "run"
    /\ sentences = << >>
    /\ data = << >>
    /\ tpos = 1
    /\ other = << >>
    /\ returned = << >>
    /\ result = NoCall

NextGS ==
    \/ GS_Token
    \/ GS_Marker
    \/ GS_End

SpecGS == InitGS /\ [][NextGS]_vars

\* ----------------------------------------------------------------- tokenize
\* The characters a text is drawn from, and the classes of tokenizer_re
\* among them: \w, \d and \s.
MaxText == 5

TextChars == {"a", "1", " ", "\n", ".", "-", "/", "+"}
WordChars == {"a", "1", "_"}
Digits == {"1"}
Spaces == {" ", "\n"}

\* The separators [\s:/,.-] of a numeric expression.
NumSeps == Spaces \cup {":", "/", ",", ".", "-"}

Texts == UNION {[1..n -> TextChars] : n \in 0..MaxText}

\* A greedy run of characters of class S from place p: the place after it.
RECURSIVE run_end(_, _, _)
run_end(t, p, S) ==
    IF p <= Len(t) /\ t[p] \in S THEN run_end(t, p + 1, S) ELSE p

\* (?:(?=[^/])\S\w+)* from place q: the place after the last group.
RECURSIVE word_groups(_, _)
word_groups(t, q) ==
    IF /\ q <= Len(t)
       /\ t[q] # "/"
       /\ t[q] \notin Spaces
       /\ run_end(t, q + 1, WordChars) > q + 1
    THEN word_groups(t, run_end(t, q + 1, WordChars))
    ELSE q

\* \w+(?:(?=[^/])\S\w+)*-? at place p: the place after the match, 0 for none.
alt_word(t, p) ==
    LET w == run_end(t, p, WordChars)
        g == word_groups(t, w)
    IN  IF w = p THEN 0
        ELSE IF g <= Len(t) /\ t[g] = "-" THEN g + 1 ELSE g

\* (?:[\s:/,.-]\d+)* from place q.
RECURSIVE num_groups(_, _)
num_groups(t, q) ==
    IF /\ q <= Len(t)
       /\ t[q] \in NumSeps
       /\ run_end(t, q + 1, Digits) > q + 1
    THEN num_groups(t, run_end(t, q + 1, Digits))
    ELSE q

\* [+.]?\d+(?:[\s:/,.-]\d+)* at place p.
alt_num(t, p) ==
    LET q == IF t[p] \in {"+", "."} /\ run_end(t, p + 1, Digits) > p + 1
             THEN p + 1 ELSE p
        d == run_end(t, q, Digits)
    IN  IF d = q THEN 0 ELSE num_groups(t, d)

\* \n(\s*\n)+ at place p: up to the last newline of the whitespace after p.
alt_para(t, p) ==
    LET w == run_end(t, p + 1, Spaces)
        nl == {q \in (p + 1)..(w - 1) : t[q] = "\n"}
    IN  IF t[p] = "\n" /\ nl # {} THEN SeqMax(nl) + 1 ELSE 0

\* (?P<char>\S)(?P=char)+ at place p.
alt_rep(t, p) ==
    LET r == run_end(t, p, {t[p]})
    IN  IF t[p] \notin Spaces /\ r >= p + 2 THEN r ELSE 0

\* \S at place p.
alt_char(t, p) == IF t[p] \notin Spaces THEN p + 1 ELSE 0

\* tokenizer_re without its last alternative, the single character.
match_at_no_char(t, p) ==
    IF alt_word(t, p) > 0 THEN [end |-> alt_word(t, p), para |-> FALSE]
    ELSE IF alt_num(t, p) > 0 THEN [end |-> alt_num(t, p), para |-> FALSE]
    ELSE IF alt_para(t, p) > 0 THEN [end |-> alt_para(t, p), para |-> TRUE]
    ELSE IF alt_rep(t, p) > 0 THEN [end |-> alt_rep(t, p), para |-> FALSE]
    ELSE [end |-> 0, para |-> FALSE]

\* tokenizer_re at place p: the first alternative, in the order written,
\* that matches there.
match_at(t, p) ==
    IF alt_word(t, p) > 0 THEN [end |-> alt_word(t, p), para |-> FALSE]
    ELSE IF alt_num(t, p) > 0 THEN [end |-> alt_num(t, p), para |-> FALSE]
    ELSE IF alt_para(t, p) > 0 THEN [end |-> alt_para(t, p), para |-> TRUE]
    ELSE IF alt_rep(t, p) > 0 THEN [end |-> alt_rep(t, p), para |-> FALSE]
    ELSE [end |-> alt_char(t, p), para |-> FALSE]

\* finditer's next match: the leftmost place from p on where tokenizer_re
\* matches (end = 0: there is none).
RECURSIVE search(_, _)
search(t, p) ==
    IF p > Len(t) THEN [start |-> p, end |-> 0, para |-> FALSE]
    ELSE IF match_at(t, p).end > 0
         THEN [start |-> p, end |-> match_at(t, p).end,
               para |-> match_at(t, p).para]
         ELSE search(t, p + 1)

PipelineUnchanged ==
    UNCHANGED <<abbrevs, iterable, cache, was_abbrev, token, jpc, marked,
                kinds, gpos, sentence, gpc, sentences, other, returned,
                result>>

\* The next match is a paragraph break: yield None
TK_Para ==
    /\ search(data, tpos).end > 0
    /\ search(data, tpos).para
    /\ tokens' = Append(tokens, None)
    /\ tpos' = search(data, tpos).end
    /\ UNCHANGED data
    /\ PipelineUnchanged

\* The next match is a token: yield match.group(0)
TK_Token ==
    /\ search(data, tpos).end > 0
    /\ ~search(data, tpos).para
    /\ tokens' = Append(tokens,
                   SubSeq(data, search(data, tpos).start,
                          search(data, tpos).end - 1))
    /\ tpos' = search(data, tpos).end
    /\ UNCHANGED data
    /\ PipelineUnchanged

\* tokenize alone, over any text of at most MaxText characters.
InitTok ==
    /\ data \in Texts
    /\ tpos = 1
    /\ tokens = << >>
    /\ abbrevs = TableEmpty
    /\ iterable = << >>
    /\ cache = << >>
    /\ was_abbrev = FALSE
    /\ token = None
    /\ jpc = "loop"
    /\ marked = << >>
    /\ kinds = << >>
    /\ gpos = 0
    /\ sentence = << >>
    /\ gpc = "run"
    /\ sentences = << >>
    /\ other = << >>
    /\ returned = << >>
    /\ result = NoCall

NextTok ==
    \/ TK_Para
    \/ TK_Token

SpecTok == InitTok /\ [][NextTok]_vars

\* ------------------------------------------ two pipelines over two documents
\* The longest document of the two.
MaxLenPair == 2

PairItems == {Dr, Dot, Hej, None}
PairStreams == UNION {[1..n -> PairItems] : n \in 0..MaxLenPair}
PairTables == {TableDr}

\* The locals of the generators of a pipeline that has not started.
Fresh(id, toks) ==
    [id |-> id, tokens |-> toks, iterable |-> toks, cache |-> << >>,
     was_abbrev |-> FALSE, token |-> None, jpc |-> "loop", marked |-> << >>,
     kinds |-> << >>, gpos |-> 0, sentence |-> << >>, gpc |-> "run",
     sentences |-> << >>]

\* The locals of the pipeline that is running.
Running ==
    [id |-> 3 - other.id, tokens |-> tokens, iterable |-> iterable,
     cache |-> cache, was_abbrev |-> was_abbrev, token |-> token,
     jpc |-> jpc, marked |-> marked, kinds |-> kinds, gpos |-> gpos,
     sentence |-> sentence, gpc |-> gpc, sentences |-> sentences]

\* Switch with the bug of was_abbrev being one variable of the module, which
\* both pipelines read and write.
Switch_SharedFlag ==
    /\ other' = [Running EXCEPT !.was_abbrev = other.was_abbrev]
    /\ tokens' = other.tokens
    /\ iterable' = other.iterable
    /\ cache' = other.cache
    /\ token' = other.token
    /\ jpc' = other.jpc
    /\ marked' = other.marked
    /\ kinds' = other.kinds
    /\ gpos' = other.gpos
    /\ sentence' = other.sentence
    /\ gpc' = other.gpc
    /\ sentences' = other.sentences
    /\ UNCHANGED <<abbrevs, was_abbrev, data, tpos, returned, result>>

\* The caller (or the scheduler of the execution units) turns to the other
\* pipeline: that one's generators go on with their own locals, this one's
\* keep theirs.  It may happen between any two steps, so also between two
\* pulls of a sentence.
Switch ==
    /\ other' = Running
    /\ tokens' = other.tokens
    /\ iterable' = other.iterable
    /\ cache' = other.cache
    /\ was_abbrev' = other.was_abbrev
    /\ token' = other.token
    /\ jpc' = other.jpc
    /\ marked' = other.marked
    /\ kinds' = other.kinds
    /\ gpos' = other.gpos
    /\ sentence' = other.sentence
    /\ gpc' = other.gpc
    /\ sentences' = other.sentences
    /\ UNCHANGED <<abbrevs, data, tpos, returned, result>>

\* Two pipelines made over two documents with one table, none started.
InitPair ==
    /\ abbrevs \in PairTables
    /\ tokens \in PairStreams
    /\ iterable = tokens
    /\ cache = << >>
    /\ was_abbrev = FALSE
    /\ token = None
    /\ jpc = "loop"
    /\ marked = << >>
    /\ kinds = << >>
    /\ gpos = 0
    /\ sentence = << >>
    /\ gpc = "run"
    /\ sentences = << >>
    /\ data = << >>
    /\ tpos = 1
    /\ other \in {Fresh(2, toks) : toks \in PairStreams}
    /\ returned = << >>
    /\ result = NoCall

NextPair ==
    \/ JA_ForEnd
    \/ JA_Fold
    \/ JA_NoFold
    \/ JA_Plain
    \/ JA_SegBreak
    \/ JA_SegNoBreak
    \/ JA_AfterBreak
    \/ JA_SegStopReturn
    \/ JA_SegStopRaise
    \/ GS_Token
    \/ GS_Marker
    \/ GS_End
    \/ GS_Raise
    \/ Switch

SpecPair == InitPair /\ [][NextPair]_vars

\* ------------------------------------------- PeekableIterator, called directly
\* The largest n of a peek(n).
MaxPeek == 3

PIUnchanged ==
    UNCHANGED <<abbrevs, tokens, was_abbrev, token, jpc, marked, kinds, gpos,
                sentence, gpc, sentences, data, tpos, other>>

\* next(it): the value goes to the caller, or StopIteration does.
PI_Next ==
    LET x == it_next(iterable, cache)
    IN  /\ iterable' = x.iterable
        /\ cache' = x.cache
        /\ returned' = IF x.stop THEN returned ELSE Append(returned, x.value)
        /\ result' = [call |-> "next", n |-> 1, at |-> Len(returned),
                      stop |-> x.stop, value |-> x.value]
        /\ PIUnchanged

\* it.peek(): n is None, so the cache is filled to 1 and _cache[0] returned.
PI_Peek ==
    LET x == peek(iterable, cache, 1)
    IN  /\ iterable' = x.iterable
        /\ cache' = x.cache
        /\ result' = [call |-> "peek", n |-> 1, at |-> Len(returned),
                      stop |-> x.stop,
                      value |-> IF x.stop THEN None ELSE x.value[1]]
        /\ UNCHANGED returned
        /\ PIUnchanged

\* it.peek(n): a list of the first n cached items, or StopIteration with
\* what the fill got left in the cache.
PI_PeekN ==
    \E n \in 0..MaxPeek :
        LET x == peek(iterable, cache, n)
        IN  /\ iterable' = x.iterable
            /\ cache' = x.cache
            /\ result' = [call |-> "peekn", n |-> n, at |-> Len(returned),
                          stop |-> x.stop, value |-> x.value]
            /\ UNCHANGED returned
            /\ PIUnchanged

\* PeekableIterator(tokens), no generator of the pipeline running.
InitPI ==
    /\ abbrevs = TableEmpty
    /\ tokens \in Streams
    /\ iterable = tokens
    /\ cache = << >>
    /\ was_abbrev = FALSE
    /\ token = None
    /\ jpc = "done"
    /\ marked = << >>
    /\ kinds = << >>
    /\ gpos = 0
    /\ sentence = << >>
    /\ gpc = "done"
    /\ sentences = << >>
    /\ data = << >>
    /\ tpos = 1
    /\ other = << >>
    /\ returned = << >>
    /\ result = NoCall

NextPI ==
    \/ PI_Next
    \/ PI_Peek
    \/ PI_PeekN

SpecPI == InitPI /\ [][NextPI]_vars

\* ------------------------------------------------------------ vocabulary
\* A stream without its markers.
Strip(s) == SelectSeq(s, LAMBDA x : x # None)

RECURSIVE Concat(_)
Concat(ss) == IF ss = << >> THEN << >> ELSE Head(ss) \o Concat(Tail(ss))

\* What the iterator has yet to hand to join_abbrevs, and what it has.
Upstream == cache \o iterable
Consumed == SubSeq(tokens, 1, Len(tokens) - Len(Upstream))

JoinEnded == jpc \in {"done", "error"}
GroupEnded == gpc \in {"done", "error"}

EndsWith(s, t) ==
    Len(s) >= Len(t) /\ SubSeq(s, Len(s) - Len(t) + 1, Len(s)) = t

IsProperPrefix(a, b) == Len(a) < Len(b) /\ SubSeq(b, 1, Len(a)) = a

\* Token T ends a sentence and item N starts one, by the spelling alone.
LooksLikeBoundary(T, N) ==
    /\ T # None /\ N # None
    /\ T[Len(T)] \in {".", ":", "!", "?"}
    /\ N[1] \in {"D", "H"}

\* ------------------------------------------------------------------- C1
\* C1: in the stream join_abbrevs yields, the item right after a folded
\* key's canonical token is never a sentence-break marker the heuristic
\* inserted, whatever the canonical token ends in and the next token starts
\* with.
C1_NoBreakAfterFold ==
    \A k \in 1..(Len(marked) - 1) :
        kinds[k] = "fold" => kinds[k + 1] # "brk"

\* The claim's example, "Dr. Hej se.": the fold is followed by an uppercase
\* token, and the four tokens come out with no marker among them.
C1_Witness ==
    /\ abbrevs = TableDr
    /\ tokens = <<Dr, Dot, Hej, se, Dot>>
    /\ JoinEnded
    /\ marked = <<DrDot, Hej, se, Dot>>
    /\ kinds[1] = "fold"
    /\ LooksLikeBoundary(marked[1], marked[2])

\* ------------------------------------------------------------------- C2
\* C2: when the stream at the token join_abbrevs is about to process starts
\* with two keys K1 and K2 of the table, K1 a proper prefix of K2 and K2 the
\* longest key matching there, the iteration yields K2's canonical token.
C2_LongestMatchWins ==
    [][\A K1 \in Keys(abbrevs), K2 \in Keys(abbrevs) :
        ( /\ jpc = "loop" /\ pulled
          /\ IsProperPrefix(K1, K2)
          /\ Len(Upstream) >= Len(K2)
          /\ SubSeq(Upstream, 1, Len(K2)) = K2
          /\ \A K3 \in Keys(abbrevs) :
                (Len(Upstream) >= Len(K3) /\ SubSeq(Upstream, 1, Len(K3)) = K3)
                    => Len(K3) <= Len(K2)
          /\ marked' # marked )
        => /\ marked' = Append(marked, Lookup(abbrevs, K2))
           /\ Len(Upstream') = Len(Upstream) - Len(K2)]_vars

\* ------------------------------------------------------------------- C3
\* C3: with the table {("Dr", "."): "Dr."}, a stream that ends with the
\* tokens "Dr", "." comes out ending with the two literal tokens "Dr", ".",
\* and the stream "se", "Dr", "." gives the one sentence ["se", "Dr", "."].
C3_SentenceFinalOverride ==
    abbrevs = TableDr =>
        /\ (JoinEnded /\ EndsWith(tokens, <<Dr, Dot>>))
            => (EndsWith(marked, <<Dr, Dot>>) /\ kinds[Len(kinds)] = "tok")
        /\ (gpc = "done" /\ tokens = <<se, Dr, Dot>>)
            => sentences = << <<se, Dr, Dot>> >>

\* ------------------------------------------------------------------- C4
\* C4: no error leaves join_abbrevs: after the last token is yielded the
\* generator returns, so group_sentences ends too and has yielded every run
\* of tokens, the last one included.
C4_NoErrorFromPeek ==
    /\ jpc # "error"
    /\ gpc # "error"
    /\ GroupEnded => Concat(sentences) = Strip(marked)

\* ------------------------------------------------------------------- C5
\* C5: once an iteration has yielded a token T unfolded (T a key prefix or
\* not), T ending in one of . : ! ?, the next item a token starting in
\* uppercase and the emission before T not a fold, the iteration has also
\* yielded a marker after T: it is never over with T as the last item yielded.
C5_BoundaryAfterEveryUnfolded ==
    ~ ( /\ jpc = "loop"
        /\ Len(marked) > 0
        /\ kinds[Len(kinds)] = "tok"
        /\ Upstream # << >>
        /\ LooksLikeBoundary(marked[Len(marked)], Head(Upstream))
        /\ (Len(marked) > 1 => kinds[Len(kinds) - 1] # "fold") )

\* ------------------------------------------------------------------- C6
\* C6: after every iteration that did not fold, was_abbrev is false; so a
\* token that starts no key and ends a sentence, two emissions after a fold
\* with an unfolded token in between, gets its marker.
C6_FlagResetEveryIteration ==
    /\ (jpc = "loop" /\ Len(marked) > 0 /\ kinds[Len(kinds)] # "fold")
        => ~was_abbrev
    /\ ~ ( /\ jpc = "loop"
           /\ Len(marked) > 2
           /\ kinds[Len(kinds) - 2] = "fold"
           /\ kinds[Len(kinds) - 1] = "tok"
           /\ kinds[Len(kinds)] = "tok"
           /\ <<marked[Len(marked)]>> \notin abbrev_prefixes(abbrevs)
           /\ Upstream # << >>
           /\ LooksLikeBoundary(marked[Len(marked)], Head(Upstream)) )

\* ------------------------------------------------------------------- C7
\* The stream with a marker put after every token that ends a sentence by
\* its spelling and the next item's.
RECURSIVE WithBreaks(_)
WithBreaks(s) ==
    IF s = << >> THEN << >>
    ELSE IF Len(s) >= 2 /\ LooksLikeBoundary(s[1], s[2])
         THEN <<s[1], None>> \o WithBreaks(Tail(s))
         ELSE <<s[1]>> \o WithBreaks(Tail(s))

\* C7 (the markers): with the empty table, what join_abbrevs has yielded when
\* it ends is the input with a marker after exactly the tokens that end in
\* one of . : ! ? and are followed by a token starting in uppercase.
C7_MarkersExact ==
    (abbrevs = TableEmpty /\ JoinEnded) => marked = WithBreaks(tokens)

\* C7: with the empty table the markers are exactly those, and the text
\* "Hej. Hej." gives exactly the sentences ["Hej", "."] and ["Hej", "."].
C7_EmptyTableBoundaries ==
    /\ C7_MarkersExact
    /\ (abbrevs = TableEmpty /\ tokens = <<Hej, Dot, Hej, Dot>> /\ GroupEnded)
        => sentences = << <<Hej, Dot>>, <<Hej, Dot>> >>

\* ------------------------------------------------------------------- C8
\* C8: with the empty table, what join_abbrevs has yielded so far is, markers
\* removed, what it has consumed of the input, markers removed; nothing is
\* folded; and when it ends it has consumed all of the input.
C8_EmptyTablePassthrough ==
    abbrevs = TableEmpty =>
        /\ Strip(marked) = Strip(Consumed)
        /\ \A k \in 1..Len(marked) :
              /\ kinds[k] # "fold"
              /\ kinds[k] = "brk" => marked[k] = None
        /\ JoinEnded => (Upstream = << >> /\ Strip(marked) = Strip(tokens))

\* A run with the empty table that inserted a marker and passed one on.
C8_Witness ==
    /\ abbrevs = TableEmpty
    /\ JoinEnded
    /\ tokens = <<se, Dot, Hej, None, Dr>>
    /\ marked = <<se, Dot, None, Hej, None, Dr>>

\* ------------------------------------------------------------------- C9
\* C9: group_sentences never yields an empty sentence, and it has yielded at
\* most one sentence per token run it has taken: a marker met with an empty
\* accumulator (at the start, after another marker, at the end) added none.
RunStarts(s) == {i \in 1..Len(s) : s[i] # None /\ (i = 1 \/ s[i - 1] = None)}

C9_NoEmptySentence ==
    /\ \A i \in 1..Len(sentences) : sentences[i] # << >>
    /\ Len(sentences) <= Cardinality(RunStarts(SubSeq(marked, 1, gpos)))

\* A stream with a marker first, markers in a row and a marker last.
C9_Witness ==
    /\ gpc = "done"
    /\ marked = <<None, None, Hej, None, None>>
    /\ sentences = << <<Hej>> >>

\* ------------------------------------------------------------------ C10
\* The maximal runs of tokens of a stream, as pairs of first and last place.
IsRun(s, i, j) ==
    /\ i <= j
    /\ \A k \in i..j : s[k] # None
    /\ i = 1 \/ s[i - 1] = None
    /\ j = Len(s) \/ s[j + 1] = None

Runs(s) == {r \in (1..Len(s)) \X (1..Len(s)) : IsRun(s, r[1], r[2])}

\* C10: when group_sentences ends, the sentences it has yielded are the
\* maximal token runs of the stream, one each and in stream order, the run
\* that reaches the end of the stream included; concatenated they are the
\* stream without its markers.
C10_SentencesAreMaximalRuns ==
    gpc = "done" =>
        /\ Len(sentences) = Cardinality(Runs(marked))
        /\ \E f \in [1..Len(sentences) -> Runs(marked)] :
              /\ \A a, b \in 1..Len(sentences) : a < b => f[a][2] < f[b][1]
              /\ \A a \in 1..Len(sentences) :
                    sentences[a] = SubSeq(marked, f[a][1], f[a][2])
        /\ Concat(sentences) = Strip(marked)

\* A stream of two runs that does not end with a marker.
C10_Witness ==
    /\ gpc = "done"
    /\ marked = <<se, Dot, None, Hej, se>>
    /\ sentences = << <<se, Dot>>, <<Hej, se>> >>

\* ------------------------------------------------------------------ C11
\* The most items the cache holds during the iteration about to run: its
\* peeks only add to the cache, so that is the cache the scan leaves, before
\* the used tokens are skipped.
CachePeak ==
    LET n == it_next(iterable, cache)
    IN  IF jpc = "loop" /\ ~n.stop /\ <<n.value>> \in abbrev_prefixes(abbrevs)
        THEN Len(scan(abbrevs, n.value, n.iterable, n.cache, 0).cache)
        ELSE Len(cache)

\* C11: at every point of a run of join_abbrevs, between its iterations and
\* within them, the cache holds at most as many items as the longest key is
\* long, and at most 1 with the empty table.
C11_LookaheadBounded ==
    LET bound == IF abbrevs = {} THEN 1 ELSE max_abbrev_length(abbrevs)
    IN  /\ Len(cache) <= bound
        /\ CachePeak <= bound

\* A scan two items deep: the cache holds two looked-ahead items.
C11_Witness ==
    /\ abbrevs = TableSingle
    /\ jpc = "loop"
    /\ token = se
    /\ cache = <<Dot, Dr>>

\* ------------------------------------------------------------------ C12
\* A text without its whitespace.
DeleteWS(t) == SelectSeq(t, LAMBDA c : c \notin {" ", "\n"})

\* tokenize has yielded its last item: finditer finds no further match.
TokEnded == search(data, tpos).end = 0

\* C12: what tokenize has yielded so far, concatenated and with whitespace
\* deleted, is the text it has gone through with whitespace deleted, and when
\* it ends that is the whole text: no character other than whitespace is
\* dropped, repeated or moved.
C12_TokensCoverText ==
    /\ DeleteWS(Concat(tokens)) = DeleteWS(SubSeq(data, 1, tpos - 1))
    /\ TokEnded => DeleteWS(Concat(tokens)) = DeleteWS(data)

\* A text with a word, a paragraph break and single characters.
C12_Witness ==
    /\ TokEnded
    /\ data = <<"a", "\n", "\n", ".", "+">>
    /\ tokens = << <<"a">>, None, <<".">>, <<"+">> >>

\* ------------------------------------------------------------------ C13
\* Digit groups from place p to the end of t, one separator between two.
RECURSIVE IsDigitGroups(_, _)
IsDigitGroups(t, p) ==
    /\ p <= Len(t)
    /\ t[p] \in {"1"}
    /\ LET d == run_end(t, p, {"1"})
       IN  \/ d > Len(t)
           \/ /\ t[d] \in {" ", "\n", ":", "/", ",", ".", "-"}
              /\ IsDigitGroups(t, d + 1)

\* A numeric expression: digit groups, led by + or . or not.
IsNumericExpr(t) ==
    /\ t # << >>
    /\ IF t[1] \in {"+", "."} THEN IsDigitGroups(t, 2) ELSE IsDigitGroups(t, 1)

\* C13: a text that is one numeric expression, whatever its separators, is
\* tokenized as the one token it is.
C13_NumericIsOneToken ==
    (TokEnded /\ IsNumericExpr(data)) => tokens = <<data>>

\* C13 (the examples): with the separators - and : of "2024-01-15" and
\* "10:30", as with , and ., the expression is one token.
C13_ExamplesOneToken ==
    (/\ TokEnded
     /\ IsNumericExpr(data)
     /\ \A p \in 1..Len(data) : data[p] \notin {" ", "\n", "/"})
        => tokens = <<data>>

\* ------------------------------------------------------------------ C14
\* join_abbrevs run from start to end with nothing else running: what it
\* yields, and whether it ends in the error of its last peek (raises: the
\* interpreter has PEP 479).
RECURSIVE JoinAlone(_, _, _, _, _)
JoinAlone(tab, it, c, wa, raises) ==
    LET n == it_next(it, c)
        s == scan(tab, n.value, n.iterable, n.cache, 0)
        k == skip(s.iterable, s.cache, Len(s.longest_candidate) - 1)
        p == peek(n.iterable, n.cache, 1)
        Put(items, r) == [marked |-> items \o r.marked, error |-> r.error]
    IN  IF n.stop THEN [marked |-> << >>, error |-> FALSE]
        ELSE IF <<n.value>> \in abbrev_prefixes(tab)
        THEN IF s.longest_candidate # << >>
             THEN Put(<<Lookup(tab, s.longest_candidate)>>,
                      JoinAlone(tab, k.iterable, k.cache, TRUE, raises))
             ELSE Put(<<n.value>>,
                      JoinAlone(tab, s.iterable, s.cache, wa, raises))
        ELSE IF p.stop THEN [marked |-> <<n.value>>, error |-> raises]
        ELSE IF is_boundary(n.value, p.value[1], wa)
        THEN Put(<<n.value, None>>,
                 JoinAlone(tab, p.iterable, p.cache, FALSE, raises))
        ELSE Put(<<n.value>>,
                 JoinAlone(tab, p.iterable, p.cache, FALSE, raises))

\* group_sentences over what join_abbrevs yields, run from start to end.
RECURSIVE GroupAlone(_, _, _)
GroupAlone(m, sent, error) ==
    LET flush == IF sent # << >> THEN <<sent>> ELSE << >>
    IN  IF m = << >> THEN (IF error THEN << >> ELSE flush)
        ELSE IF Head(m) = None
        THEN flush \o GroupAlone(Tail(m), << >>, error)
        ELSE GroupAlone(Tail(m), Append(sent, Head(m)), error)

\* The pipeline run alone over a document.
Alone(tab, toks, raises) ==
    LET j == JoinAlone(tab, toks, << >>, FALSE, raises)
    IN  [sentences |-> GroupAlone(j.marked, << >>, j.error),
         error |-> j.error]

\* The sentences a pipeline has yielded so far are the first of those it
\* yields when run alone, and all of them once it has ended, with the same
\* ending.
AsAlone(P) ==
    \E raises \in BOOLEAN :
        LET a == Alone(abbrevs, P.tokens, raises)
        IN  /\ Len(P.sentences) <= Len(a.sentences)
            /\ P.sentences = SubSeq(a.sentences, 1, Len(P.sentences))
            /\ P.gpc # "run" =>
                  /\ P.sentences = a.sentences
                  /\ (P.gpc = "error") = a.error

\* C14: two pipelines over two documents and one table, their steps
\* interleaved in any order: each yields the sentences it yields when run
\* alone, and no step changes the table.
C14_PipelinesIndependent ==
    /\ [](AsAlone(Running) /\ AsAlone(other))
    /\ [][abbrevs' = abbrevs]_vars

\* Both pipelines under way at once: one has folded "Dr" "." and set its
\* was_abbrev, the other is between the yield of "." and its boundary test.
C14_Witness ==
    /\ abbrevs = TableDr
    /\ tokens = <<Dot, Hej>>
    /\ jpc = "seg"
    /\ token = Dot
    /\ ~was_abbrev
    /\ other.tokens = <<Dr, Dot>>
    /\ other.marked = <<DrDot>>
    /\ other.was_abbrev

\* Both pipelines ended, the second document's sentences complete.
C14_WitnessEnded ==
    /\ abbrevs = TableDr
    /\ gpc # "run" /\ other.gpc # "run"
    /\ tokens = <<Dot, Hej>>
    /\ other.tokens = <<Dr, Dot>>
    /\ other.sentences = <<<<DrDot>>>>

\* ------------------------------------------------------------------ C15
\* Key K matches the stream U at its start.
Matches(K, U) == Len(U) >= Len(K) /\ SubSeq(U, 1, Len(K)) = K

\* C15: the prefix-set is the set of the non-empty prefixes of the keys; and
\* at a token T that starts a key, whenever the candidate of T and the next i
\* items is not in the prefix-set, no key longer than i matches the stream
\* at T.
C15_PrefixSetSound ==
    /\ \A p \in abbrev_prefixes(abbrevs) :
          p # << >> /\ \E K \in Keys(abbrevs) : Matches(p, K)
    /\ \A K \in Keys(abbrevs) : \A n \in 1..Len(K) :
          SubSeq(K, 1, n) \in abbrev_prefixes(abbrevs)
    /\ (jpc = "loop" /\ Upstream # << >>
            /\ <<Head(Upstream)>> \in abbrev_prefixes(abbrevs))
        => \A i \in 1..(Len(Upstream) - 1) :
              SubSeq(Upstream, 1, i + 1) \notin abbrev_prefixes(abbrevs)
                  => \A K \in Keys(abbrevs) :
                        Len(K) > i => ~Matches(K, Upstream)

\* A scan that went on past one prefix and stopped at the next candidate,
\* which is none, the table holding a key that long.
C15_Witness ==
    /\ abbrevs = TableSingle
    /\ jpc = "loop"
    /\ Len(marked) > 0
    /\ marked[Len(marked)] = se
    /\ kinds[Len(kinds)] = "tok"
    /\ Len(cache) = 2
    /\ <<se, cache[1]>> \in abbrev_prefixes(abbrevs)
    /\ <<se, cache[1], cache[2]>> \notin abbrev_prefixes(abbrevs)

\* ------------------------------------------------------------------ C16
\* The key a canonical token stands for (the tables' values are distinct).
KeyOf(tab, v) == (CHOOSE e \in tab : e.val = v).key

\* The yielded stream with every folded token replaced by its key and every
\* inserted marker deleted.
RECURSIVE Unfold(_, _, _)
Unfold(tab, m, k) ==
    IF m = << >> THEN << >>
    ELSE (CASE k[1] = "fold" -> KeyOf(tab, m[1])
            [] k[1] = "brk"  -> << >>
            [] OTHER         -> <<m[1]>>) \o Unfold(tab, Tail(m), Tail(k))

\* C16: at every yield, what join_abbrevs has yielded is, folded tokens
\* replaced by their keys and inserted markers deleted, what it has consumed
\* of the input (so a fold of K consumes the len(K) - 1 tokens after the
\* first); when it ends that is the whole input.
C16_TokenConservation ==
    /\ Unfold(abbrevs, marked, kinds) = Consumed
    /\ JoinEnded => Unfold(abbrevs, marked, kinds) = tokens

\* A run with an unfolded prefix token, a fold of a key of three tokens and a
\* token after it.
C16_Witness ==
    /\ abbrevs = TableSingle
    /\ JoinEnded
    /\ tokens = <<se, se, Dot, Hej, Dot>>
    /\ marked = <<se, SeDotHej, Dot>>
    /\ kinds = <<"tok", "fold", "tok">>

\* ------------------------------------------------------------------ C17
\* Which yield each item of the unfolded stream came from.
RECURSIVE UnfoldKinds(_, _, _)
UnfoldKinds(tab, m, k) ==
    IF m = << >> THEN << >>
    ELSE (CASE k[1] = "fold" ->
                 [i \in 1..Len(KeyOf(tab, m[1])) |-> "fold"]
            [] k[1] = "brk"  -> << >>
            [] OTHER         -> <<"tok">>) \o UnfoldKinds(tab, Tail(m), Tail(k))

\* Where a stream has markers and where tokens.
Shape(s) == [i \in 1..Len(s) |-> s[i] = None]

\* C17: no fold takes in a marker: markers and tokens alternate in the
\* unfolded output as in the input consumed, and every marker of the input
\* is in the output as an item passed on, never as part of a folded key.
C17_MarkersNotFolded ==
    LET u == Unfold(abbrevs, marked, kinds)
        uk == UnfoldKinds(abbrevs, marked, kinds)
    IN  /\ Shape(u) = Shape(Consumed)
        /\ \A p \in 1..Len(u) : u[p] = None => uk[p] = "tok"
        /\ \A k \in 1..Len(marked) :
              kinds[k] = "fold" =>
                 \A j \in 1..Len(KeyOf(abbrevs, marked[k])) :
                    KeyOf(abbrevs, marked[k])[j] # None

\* A marker between the two tokens of a key, which is not folded, and the
\* same key folded further on.
C17_Witness ==
    /\ abbrevs = TableDr
    /\ JoinEnded
    /\ tokens = <<Dr, None, Dot, Dr, Dot>>
    /\ marked = <<Dr, None, Dot, None, DrDot>>
    /\ kinds = <<"tok", "tok", "tok", "brk", "fold">>

\* ------------------------------------------------------------------ C18
\* C18: no fold ever yields for a key of length 1: a token that is such a key
\* and is not folded into a longer one is yielded as it is, and a table of
\* keys of length 1 only changes no token.
C18_SingleKeyNeverApplied ==
    /\ \A k \in 1..Len(marked) :
          kinds[k] = "fold" => Len(KeyOf(abbrevs, marked[k])) >= 2
    /\ (/\ jpc = "loop" /\ Len(marked) > 0
        /\ <<token>> \in Keys(abbrevs)
        /\ kinds[Len(kinds)] # "fold")
        => marked[Len(marked)] = token
    /\ (abbrevs = TableOne /\ JoinEnded) => Strip(marked) = Strip(tokens)

\* The token "se", a key of its own, yielded unchanged.
C18_Witness ==
    /\ abbrevs = TableOne
    /\ JoinEnded
    /\ tokens = <<se, Dot, Hej>>
    /\ marked = <<se, Dot, None, Hej>>

\* ------------------------------------------------------------------ C19
\* C19: whatever the calls were, the values next() has returned, then the
\* cache, then what the underlying iterable has left, are the underlying
\* sequence; next() returns the item after those returned before, and stops
\* only when all are returned; peek(n) returns the n items after those
\* returned so far (the ones the next n next() will return, the returned
\* values being a prefix of the underlying sequence), peek() the first of
\* them, and each stops exactly when fewer are left.
C19_TransparentBuffer ==
    LET left == Len(tokens) - result.at
    IN  /\ returned \o cache \o iterable = tokens
        /\ result.call # "none" => (result.stop <=> left < result.n)
        /\ (result.call = "next" /\ ~result.stop) =>
              /\ Len(returned) = result.at + 1
              /\ result.value = tokens[result.at + 1]
        /\ (result.call = "next" /\ result.stop) => returned = tokens
        /\ result.call \in {"peek", "peekn"} => Len(returned) = result.at
        /\ (result.call = "peek" /\ ~result.stop) =>
              result.value = tokens[result.at + 1]
        /\ (result.call = "peekn" /\ ~result.stop) =>
              result.value = SubSeq(tokens, result.at + 1,
                                    result.at + result.n)

\* A peek(3) after a next(), failing with two items left, which it leaves in
\* the cache.
C19_Witness ==
    /\ tokens = <<Dr, Dot, Hej>>
    /\ returned = <<Dr>>
    /\ result.call = "peekn" /\ result.n = 3 /\ result.stop
    /\ cache = <<Dot, Hej>>
    /\ iterable = << >>

\* The items a failed peek left in the cache, returned by next() in order.
C19_WitnessDrained ==
    /\ tokens = <<Dr, Dot, Hej>>
    /\ returned = tokens
    /\ result.call = "next" /\ result.stop

=============================================================================
